---- MODULE Spec2Model ----
(***************************************************************************)
(* Model of the Global Weather Forecasting App (src/app.py): the weather   *)
(* code translator, the daily-series normalizer, the two memoized network  *)
(* helpers and the form-submission handler.                                *)
(*                                                                         *)
(* Python values are encoded as tagged records: None is [t |-> "None"], a  *)
(* dict is [t |-> "dict", kv |-> <function on its keys>], a list is        *)
(* [t |-> "list", v |-> <sequence>], a str is [t |-> "str", s |-> ...].    *)
(* Floats are fixed-point integers (hundredths).                           *)
(***************************************************************************)
EXTENDS Integers, Sequences, FiniteSets, TLC

VARIABLES
    code, text,              \* weathercode_to_text: argument, returned label
    daily_json, df,          \* make_daily_dataframe: argument, outcome
    location_input,          \* the form's text field at the last submission
    forecast_days,           \* the form's "Forecast days" selection
    pc,                      \* where the script run stands: "idle", or
                             \* blocked in the "geocode" / "forecast" request
    q, loc, data,            \* the submit handler's locals
    notices,                 \* what the current run has put on the page
    netlog,                  \* the network requests of the current run
    cacheGeo, cacheWx,       \* st.cache_data stores of the two helpers
    geoSent,                 \* geocoding requests sent so far, per query
    runs                     \* submissions so far

pureVars == <<code, text, daily_json, df>>
formVars == <<location_input, forecast_days>>
runVars == <<pc, q, loc, data, notices, netlog>>
cacheVars == <<cacheGeo, cacheWx, geoSent>>
vars == <<code, text, daily_json, df, location_input, forecast_days, pc, q,
          loc, data, notices, netlog, cacheGeo, cacheWx, geoSent, runs>>

-----------------------------------------------------------------------------
(* Python values *)

None == [t |-> "None"]
Dict(f) == [t |-> "dict", kv |-> f]
List(s) == [t |-> "list", v |-> s]
Str(s) == [t |-> "str", s |-> s]
Num(n) == [t |-> "num", n |-> n]
Raise(e) == [t |-> "raise", exc |-> e]
NotCalled == [t |-> "not_called"]

\* an empty dict: a function with no keys
EmptyKV == [k \in {} |-> None]

\* Python truthiness of None, dict, list, str
Truthy(v) ==
    CASE v.t = "None" -> FALSE
      [] v.t = "dict" -> DOMAIN v.kv # {}
      [] v.t = "list" -> Len(v.v) > 0
      [] v.t = "str" -> Len(v.s) > 0
      [] OTHER -> TRUE

\* dict.get(key, default)
Get(d, key, default) == IF key \in DOMAIN d.kv THEN d.kv[key] ELSE default

-----------------------------------------------------------------------------
(* Weather Code Translator *)

\* the static code table of weathercode_to_text
mapping ==
    [c \in {0, 1, 2, 3, 45, 48, 51, 53, 55, 61, 63, 65, 71, 73, 75,
            80, 81, 82, 95, 96, 99} |->
        CASE c = 0 -> "Clear sky"
          [] c = 1 -> "Mainly clear"
          [] c = 2 -> "Partly cloudy"
          [] c = 3 -> "Overcast"
          [] c = 45 -> "Fog"
          [] c = 48 -> "Depositing rime fog"
          [] c = 51 -> "Drizzle: Light"
          [] c = 53 -> "Drizzle: Moderate"
          [] c = 55 -> "Drizzle: Dense"
          [] c = 61 -> "Rain: Slight"
          [] c = 63 -> "Rain: Moderate"
          [] c = 65 -> "Rain: Heavy"
          [] c = 71 -> "Snow fall: Slight"
          [] c = 73 -> "Snow fall: Moderate"
          [] c = 75 -> "Snow fall: Heavy"
          [] c = 80 -> "Rain showers: Slight"
          [] c = 81 -> "Rain showers: Moderate"
          [] c = 82 -> "Rain showers: Violent"
          [] c = 95 -> "Thunderstorm: Moderate"
          [] c = 96 -> "Thunderstorm with slight hail"
          [] c = 99 -> "Thunderstorm with heavy hail"]

\* mutation: the lookup falls back to the first table entry
weathercode_to_text_first(c) ==
    IF c \in DOMAIN mapping THEN mapping[c] ELSE mapping[0]

\* mapping.get(code, "Unknown")
weathercode_to_text(c) ==
    IF c \in DOMAIN mapping THEN mapping[c] ELSE "Unknown"

-----------------------------------------------------------------------------
(* Forecast Normalizer *)

\* the dates the weather collaborator sends, as ISO text, with their
\* calendar value
Calendar ==
    << <<"2024-01-01", [year |-> 2024, month |-> 1, day |-> 1]>>,
       <<"2024-01-02", [year |-> 2024, month |-> 1, day |-> 2]>>,
       <<"2024-01-03", [year |-> 2024, month |-> 1, day |-> 3]>>,
       <<"2024-01-04", [year |-> 2024, month |-> 1, day |-> 4]>>,
       <<"2024-01-05", [year |-> 2024, month |-> 1, day |-> 5]>> >>

\* pd.to_datetime on one ISO date string: the Timestamp it parses to
to_datetime(s) ==
    LET i == CHOOSE j \in 1..Len(Calendar) : Calendar[j][1] = s
    IN  Calendar[i][2]

\* mutation: the bound check is off by one
ItemAt_offbyone(seq, i) == IF i < Len(seq) THEN Num(seq[i]) ELSE None

\* `seq[i] if i < len(seq) else None` (i is the 1-based position here)
ItemAt(seq, i) == IF i <= Len(seq) THEN Num(seq[i]) ELSE None

\* `for i, d in enumerate(dates)`: one row per date; "date" still holds the
\* raw text
Rows(dates, tmax, tmin, precip, wcode) ==
    [i \in 1..Len(dates) |->
        [date |-> dates[i],
         tmax |-> ItemAt(tmax, i),
         tmin |-> ItemAt(tmin, i),
         precip_mm |-> ItemAt(precip, i),
         weather_text |-> IF i <= Len(wcode)
                            THEN Str(weathercode_to_text(wcode[i]))
                            ELSE None]]

\* pd.DataFrame(rows): the columns are the keys of the row dicts, so a frame
\* built from no rows has no columns
DataFrame(rows) ==
    [t |-> "df",
     columns |-> IF Len(rows) = 0 THEN {}
                 ELSE {"date", "tmax", "tmin", "precip_mm", "weather_text"},
     rows |-> rows]

\* df["date"] = pd.to_datetime(df["date"]): df["date"] raises KeyError when
\* the frame has no such column
ConvertDates(frame) ==
    IF "date" \notin frame.columns THEN Raise("KeyError")
    ELSE [frame EXCEPT !.rows =
            [i \in 1..Len(frame.rows) |->
                [frame.rows[i] EXCEPT !.date = to_datetime(frame.rows[i].date)]]]

make_daily_dataframe(dj) ==
    IF ~Truthy(dj) THEN None
    ELSE LET dates == Get(dj, "time", <<>>)
             tmax == Get(dj, "temperature_2m_max", <<>>)
             tmin == Get(dj, "temperature_2m_min", <<>>)
             precip == Get(dj, "precipitation_sum", <<>>)
             wcode == Get(dj, "weathercode", <<>>)
         IN  ConvertDates(DataFrame(Rows(dates, tmax, tmin, precip, wcode)))

-----------------------------------------------------------------------------
(* Text: a str is a sequence of one-character strings *)

IsSpace(c) == c = " "

RECURSIVE lstrip(_)
lstrip(s) ==
    IF Len(s) > 0 /\ IsSpace(Head(s)) THEN lstrip(Tail(s)) ELSE s

RECURSIVE rstrip(_)
rstrip(s) ==
    IF Len(s) > 0 /\ IsSpace(s[Len(s)])
    THEN rstrip(SubSeq(s, 1, Len(s) - 1))
    ELSE s

\* str.strip()
strip(s) == rstrip(lstrip(s))

Digits == {"0", "1", "2", "3", "4", "5", "6", "7", "8", "9"}

DigitVal(c) ==
    CASE c = "0" -> 0 [] c = "1" -> 1 [] c = "2" -> 2 [] c = "3" -> 3
      [] c = "4" -> 4 [] c = "5" -> 5 [] c = "6" -> 6 [] c = "7" -> 7
      [] c = "8" -> 8 [] c = "9" -> 9

RECURSIVE DigitsVal(_)
DigitsVal(s) ==
    IF Len(s) = 0 THEN 0
    ELSE 10 * DigitsVal(SubSeq(s, 1, Len(s) - 1)) + DigitVal(s[Len(s)])

\* the decimal texts float() accepts here: [-]digits[.digits]
IsDecimal(s) ==
    LET body == IF Len(s) > 0 /\ Head(s) = "-" THEN Tail(s) ELSE s
        dots == {i \in 1..Len(body) : body[i] = "."}
    IN  /\ Cardinality(dots) <= 1
        /\ \A i \in 1..Len(body) : body[i] \in Digits \cup {"."}
        /\ \E i \in 1..Len(body) : body[i] \in Digits

\* the value of a decimal text, in hundredths
DecimalVal(s) ==
    LET neg == Len(s) > 0 /\ Head(s) = "-"
        body == IF neg THEN Tail(s) ELSE s
        dots == {i \in 1..Len(body) : body[i] = "."}
        dot == IF dots = {} THEN Len(body) + 1 ELSE CHOOSE i \in dots : TRUE
        whole == SubSeq(body, 1, dot - 1)
        frac == SubSeq(body, dot + 1, Len(body))
        f1 == IF Len(frac) >= 1 THEN DigitVal(frac[1]) ELSE 0
        f2 == IF Len(frac) >= 2 THEN DigitVal(frac[2]) ELSE 0
        mag == 100 * DigitsVal(whole) + 10 * f1 + f2
    IN  IF neg THEN 0 - mag ELSE mag

\* float(x) for x = item.get(...): None raises TypeError, a text that is no
\* number raises ValueError
float(x) ==
    CASE x.t = "None" -> Raise("TypeError")
      [] x.t = "str" -> IF IsDecimal(x.s) THEN Num(DecimalVal(x.s))
                        ELSE Raise("ValueError")
      [] OTHER -> Raise("TypeError")

-----------------------------------------------------------------------------
(* Bounds and the environment's inputs *)

MaxRuns == 2      \* submissions in one process
MaxDays == 3      \* longest series in a daily block
NegCodes == 3     \* weather codes are tried from -NegCodes ...
TopCode == 101    \* ... up to TopCode, and at FarCode
FarCode == 1000

\* the options of the "Forecast days" selectbox
DayOptions == {3, 5, 7, 10}

\* what the user may have typed: nothing, blanks, and three queries that
\* differ in casing or inner whitespace, one of them also padded
LocationInputs ==
    { None,
      Str(<<>>),
      Str(<<" ", " ">>),
      Str(<<"a", " ", "b">>),
      Str(<<" ", "a", " ", "b", " ">>),
      Str(<<"A", " ", "b">>),
      Str(<<"a", " ", " ", "b">>) }

\* the i-th value of each daily series the weather collaborator sends
SeriesValue(key, i) ==
    CASE key = "time" -> Calendar[i][1]
      [] key = "temperature_2m_max" -> 1000 + 200 * i
      [] key = "temperature_2m_min" -> 200 + 100 * i
      [] key = "precipitation_sum" -> 500 * (i - 1)
      [] key = "weathercode" -> <<0, 61, 56, 3, 1000>>[i]

Series(key, m) == [i \in 1..m |-> SeriesValue(key, i)]

DailyKeys ==
    {"time", "temperature_2m_max", "temperature_2m_min", "precipitation_sum",
     "weathercode"}

\* daily blocks: any subset of the five keys, each series of any length
DailyBlocks ==
    {None} \cup
    { Dict([k \in K |-> Series(k, len[k])]) :
        K \in SUBSET DailyKeys, len \in [DailyKeys -> 0..MaxDays] }

Codes == ((0 - NegCodes)..TopCode) \cup {FarCode}

\* a response body: text that is no JSON, or the JSON value it holds
NotJson == [json |-> FALSE]
Json(v) == [json |-> TRUE, value |-> v]

Timeout == [kind |-> "timeout"]
Response(status, body) == [kind |-> "response", status |-> status, body |-> body]

Statuses == {200, 404, 500}

LatText == <<"4", "8", ".", "8", "5">>
LonText == <<"-", "2", ".", "3">>
PlaceName == <<"P">>

\* the first candidate of a geocoding result list
GeoItems ==
    { Dict([lat |-> Str(LatText), lon |-> Str(LonText),
            display_name |-> Str(PlaceName)]),
      Dict([lat |-> Str(LatText), lon |-> Str(LonText)]),
      Dict([lon |-> Str(LonText), display_name |-> Str(PlaceName)]),
      Dict([lat |-> Str(LatText), lon |-> Str(<<"n", "/", "a">>),
            display_name |-> Str(PlaceName)]),
      Str(PlaceName) }

GeoBodies ==
    { NotJson, Json(Dict([error |-> Str(<<"x">>)])), Json(List(<<>>)) }
    \cup { Json(List(<<item>>)) : item \in GeoItems }

GeoOutcomes ==
    {Timeout} \cup { Response(st, b) : st \in Statuses, b \in GeoBodies }

CurrentBlock ==
    Dict([temperature |-> 1150, windspeed |-> 320, winddirection |-> 270,
          time |-> "2024-01-01T12:00"])

\* forecast payloads: a full one, one with shorter component series and no
\* current block, one whose daily block has an empty date series, an empty one
Payloads ==
    { Dict([current_weather |-> CurrentBlock,
            daily |-> Dict([k \in DailyKeys |-> Series(k, MaxDays)])]),
      Dict([daily |->
              Dict([k \in DailyKeys |->
                      Series(k, IF k = "time" THEN MaxDays
                                ELSE IF k = "weathercode" THEN 1
                                ELSE MaxDays - 1)])]),
      Dict([current_weather |-> CurrentBlock,
            daily |-> Dict([k \in DailyKeys |-> <<>>])]),
      Dict(EmptyKV) }

WxBodies == {NotJson} \cup { Json(p) : p \in Payloads }

WxOutcomes ==
    {Timeout} \cup { Response(st, b) : st \in Statuses, b \in WxBodies }

-----------------------------------------------------------------------------
(* Network helpers *)

\* the exception classes derived from requests.RequestException
RequestException == {"Timeout", "HTTPError", "JSONDecodeError"}

\* resp.raise_for_status(): HTTPError on a 4xx or 5xx status
raise_for_status(status) == 400 <= status /\ status < 600

GeoRequest(query) ==
    [api |-> "nominatim", q |-> query, format |-> "json", limit |-> 1,
     timeout |-> 10]

WxRequest(lat, lon, days) ==
    [api |-> "open-meteo", latitude |-> lat, longitude |-> lon,
     forecast_days |-> days, timeout |-> 10]

\* the try block of geocode_location: the value returned or the exception
\* raised, given what requests.get came back with
geocode_try(query, outcome) ==
    IF outcome.kind = "timeout" THEN Raise("Timeout")
    ELSE IF raise_for_status(outcome.status) THEN Raise("HTTPError")
    ELSE IF ~outcome.body.json THEN Raise("JSONDecodeError")
    ELSE LET body == outcome.body.value IN
         IF body.t = "list" /\ Len(body.v) > 0
         THEN LET item == body.v[1] IN
              IF item.t # "dict" THEN Raise("AttributeError")
              ELSE LET lat == float(Get(item, "lat", None))
                       lon == float(Get(item, "lon", None))
                       display_name == Get(item, "display_name", Str(query))
                   IN  IF lat.t = "raise" THEN lat
                       ELSE IF lon.t = "raise" THEN lon
                       ELSE Dict([lat |-> lat.n, lon |-> lon.n,
                                  name |-> display_name.s])
         ELSE None

\* `except requests.RequestException: return None`
geocode_location(query, outcome) ==
    LET r == geocode_try(query, outcome)
    IN  IF r.t = "raise" /\ r.exc \in RequestException THEN None ELSE r

\* mutation: the except clause is missing
fetch_weather_uncaught(outcome) ==
    IF outcome.kind = "timeout" THEN Raise("Timeout")
    ELSE IF raise_for_status(outcome.status) THEN Raise("HTTPError")
    ELSE IF ~outcome.body.json THEN Raise("JSONDecodeError")
    ELSE outcome.body.value

\* the try block of fetch_weather
fetch_try(outcome) ==
    IF outcome.kind = "timeout" THEN Raise("Timeout")
    ELSE IF raise_for_status(outcome.status) THEN Raise("HTTPError")
    ELSE IF ~outcome.body.json THEN Raise("JSONDecodeError")
    ELSE outcome.body.value

fetch_weather(outcome) ==
    LET r == fetch_try(outcome)
    IN  IF r.t = "raise" /\ r.exc \in RequestException THEN None ELSE r

\* mutation: only a result that is not None is stored
CacheStore_skip_none(cache, key, r) ==
    IF r.t = "raise" \/ r.t = "None" THEN cache ELSE cache @@ (key :> r)

\* st.cache_data: a call that returns stores its value under its arguments;
\* a call that raises stores nothing
CacheStore(cache, key, r) ==
    IF r.t = "raise" THEN cache ELSE cache @@ (key :> r)

-----------------------------------------------------------------------------
(* The submit handler *)

\* df["precip_mm"].notnull().any()
AnyPrecip(frame) == \E i \in 1..Len(frame.rows) : frame.rows[i].precip_mm # None

\* the `else` branch that renders a fetched payload: what it puts on the
\* page, the daily block it normalizes and the frame it gets
Render(d) ==
    LET current == Get(d, "current_weather", Dict(EmptyKV))
        shown == IF Truthy(current)
                 THEN <<"subheader:current", "markdown:current">>
                 ELSE <<"info:no_current">>
        daily == Get(d, "daily", Dict(EmptyKV))
        frame == make_daily_dataframe(daily)
    IN  [daily |-> daily,
         frame |-> frame,
         notes |->
            IF frame.t = "raise" THEN shown \o <<"exception", frame.exc>>
            ELSE IF frame.t = "None" \/ Len(frame.rows) = 0
            THEN shown \o <<"info:no_daily", "caption">>
            ELSE shown \o <<"subheader:forecast", "dataframe", "line_chart">>
                 \o (IF AnyPrecip(frame) THEN <<"bar_chart">> ELSE <<>>)
                 \o <<"expanders", "caption">>]

\* from `if not data:` on, with the value fetch_weather gave
AfterFetch(d, log) ==
    /\ pc' = "idle"
    /\ data' = d
    /\ netlog' = log
    /\ IF ~Truthy(d)
       THEN /\ notices' = <<"success:location", "error:fetch_failed", "caption">>
            /\ UNCHANGED <<daily_json, df>>
       ELSE LET r == Render(d) IN
            /\ notices' = <<"success:location">> \o r.notes
            /\ daily_json' = r.daily
            /\ df' = r.frame

\* mutation: the forecast is requested whatever the resolver returned
ForecastWanted_always(l) == TRUE

\* `if not loc: ... else:` the forecast is requested for a Location only
ForecastWanted(l) == Truthy(l)

\* mutation: the forecast is requested with the default day count
DaysArgument_default(days) == 7

\* fetch_weather(lat, lon, days=forecast_days)
DaysArgument(days) == days

\* from `if not loc:` on, with the value geocode_location gave; a forecast
\* that is not in the cache leaves the run blocked in its request
AfterGeocode(l, days, log) ==
    /\ loc' = l
    /\ IF ~ForecastWanted(l)
       THEN /\ pc' = "idle"
            /\ notices' = <<"error:not_found", "caption">>
            /\ data' = None
            /\ netlog' = log
            /\ UNCHANGED <<daily_json, df>>
       ELSE IF l.t # "dict"
       THEN \* loc["lat"] on a value that is no dict raises TypeError
            /\ pc' = "idle"
            /\ notices' = <<"exception", "TypeError">>
            /\ data' = None
            /\ netlog' = log
            /\ UNCHANGED <<daily_json, df>>
       ELSE LET key == <<l.kv.lat, l.kv.lon, DaysArgument(days)>> IN
            IF key \in DOMAIN cacheWx
            THEN AfterFetch(cacheWx[key], log)
            ELSE /\ pc' = "forecast"
                 /\ notices' = <<"success:location">>
                 /\ data' = None
                 /\ netlog' = Append(log, WxRequest(key[1], key[2], key[3]))
                 /\ UNCHANGED <<daily_json, df>>

\* mutation: the text is used as typed
Query_untrimmed(input) == IF Truthy(input) THEN input.s ELSE <<>>

\* q = (location_input or "").strip()
Query(input) == strip(IF Truthy(input) THEN input.s ELSE <<>>)

\* st.cache_data on geocode_location: is the call served from the cache
GeoCached(query) == query \in DOMAIN cacheGeo

\* "Get Forecast" pressed: the script runs up to its first network request
Submit(input, days) ==
    /\ pc = "idle"
    /\ runs < MaxRuns
    /\ runs' = runs + 1
    /\ location_input' = input
    /\ forecast_days' = days
    /\ q' = Query(input)
    /\ IF q' = <<>>
       THEN /\ pc' = "idle"
            /\ notices' = <<"info:enter_location">>
            /\ loc' = None
            /\ data' = None
            /\ netlog' = <<>>
            /\ UNCHANGED <<daily_json, df, geoSent>>
       ELSE IF GeoCached(q')
       THEN /\ AfterGeocode(cacheGeo[q'], days, <<>>)
            /\ UNCHANGED geoSent
       ELSE /\ pc' = "geocode"
            /\ notices' = <<>>
            /\ loc' = None
            /\ data' = None
            /\ netlog' = <<GeoRequest(q')>>
            /\ geoSent' = IF q' \in DOMAIN geoSent
                          THEN [geoSent EXCEPT ![q'] = @ + 1]
                          ELSE geoSent @@ (q' :> 1)
            /\ UNCHANGED <<daily_json, df>>
    /\ UNCHANGED <<code, text, cacheGeo, cacheWx>>

\* the geocoding request comes back (or times out): geocode_location
\* returns or raises, and the script runs on to its next network request
GeocodeResponse(outcome) ==
    /\ pc = "geocode"
    /\ LET r == geocode_location(q, outcome) IN
       /\ cacheGeo' = CacheStore(cacheGeo, q, r)
       /\ IF r.t = "raise"
          THEN /\ pc' = "idle"
               /\ notices' = <<"exception", r.exc>>
               /\ UNCHANGED <<loc, data, netlog, daily_json, df>>
          ELSE AfterGeocode(r, forecast_days, netlog)
    /\ UNCHANGED <<code, text, location_input, forecast_days, q, cacheWx,
                   geoSent, runs>>

\* the forecast request comes back (or times out): fetch_weather returns
\* and the script runs to its end
WeatherResponse(outcome) ==
    /\ pc = "forecast"
    /\ LET r == fetch_weather(outcome)
           sent == netlog[Len(netlog)]
           key == <<sent.latitude, sent.longitude, sent.forecast_days>>
       IN
       /\ cacheWx' = CacheStore(cacheWx, key, r)
       /\ IF r.t = "raise"
          THEN /\ pc' = "idle"
               /\ notices' = notices \o <<"exception", r.exc>>
               /\ UNCHANGED <<data, netlog, daily_json, df>>
          ELSE AfterFetch(r, netlog)
    /\ UNCHANGED <<code, text, location_input, forecast_days, q, loc,
                   cacheGeo, geoSent, runs>>

\* the page as first loaded: no submission yet, nothing cached
Init ==
    /\ code = 0
    /\ text = ""
    /\ daily_json = None
    /\ df = NotCalled
    /\ location_input = Str(<<>>)
    /\ forecast_days = 7
    /\ pc = "idle"
    /\ q = <<>>
    /\ loc = None
    /\ data = None
    /\ notices = <<"info:prompt">>
    /\ netlog = <<>>
    /\ cacheGeo = EmptyKV
    /\ cacheWx = EmptyKV
    /\ geoSent = EmptyKV
    /\ runs = 0

Next ==
    \/ \E input \in LocationInputs, days \in DayOptions : Submit(input, days)
    \/ \E outcome \in GeoOutcomes : GeocodeResponse(outcome)
    \/ \E outcome \in WxOutcomes : WeatherResponse(outcome)

Spec == Init /\ [][Next]_vars

-----------------------------------------------------------------------------
(* The two pure functions on their own *)

appVars == <<location_input, pc, q, loc, data, notices, netlog, cacheGeo,
             cacheWx, geoSent, runs>>

InitApp ==
    /\ location_input = Str(<<>>)
    /\ pc = "idle"
    /\ q = <<>>
    /\ loc = None
    /\ data = None
    /\ notices = <<"info:prompt">>
    /\ netlog = <<>>
    /\ cacheGeo = EmptyKV
    /\ cacheWx = EmptyKV
    /\ geoSent = EmptyKV
    /\ runs = 0

InitCode ==
    /\ InitApp
    /\ forecast_days = 7
    /\ daily_json = None
    /\ df = NotCalled
    /\ code \in Codes
    /\ text = ""

\* one call of weathercode_to_text
Translate ==
    /\ text = ""
    /\ text' = weathercode_to_text(code)
    /\ UNCHANGED <<code, daily_json, df, forecast_days, appVars>>

SpecCode == InitCode /\ [][Translate]_vars

InitDaily ==
    /\ InitApp
    /\ forecast_days \in DayOptions
    /\ daily_json \in DailyBlocks
    /\ df = NotCalled
    /\ code = 0
    /\ text = ""

\* one call of make_daily_dataframe
Normalize ==
    /\ df = NotCalled
    /\ df' = make_daily_dataframe(daily_json)
    /\ UNCHANGED <<code, text, daily_json, forecast_days, appVars>>

SpecDaily == InitDaily /\ [][Normalize]_vars

-----------------------------------------------------------------------------
(* Properties *)

\* the 21 assigned codes
KnownCodes ==
    {0, 1, 2, 3, 45, 48, 51, 53, 55, 61, 63, 65, 71, 73, 75, 80, 81, 82,
     95, 96, 99}

\* C1: weathercode_to_text is total over the integers: each of the 21 table
\* codes gives its mapped description (3 gives "Overcast", 0 "Clear sky",
\* 61 "Rain: Slight"), every other integer gives "Unknown".
C1_Total ==
    text # "" =>
        /\ Cardinality(KnownCodes) = 21
        /\ KnownCodes = DOMAIN mapping
        /\ code \in KnownCodes => text = mapping[code] /\ text # "Unknown"
        /\ code \notin KnownCodes => text = "Unknown"
        /\ code = 0 => text = "Clear sky"
        /\ code = 3 => text = "Overcast"
        /\ code = 61 => text = "Rain: Slight"

\* an unassigned code has been translated
C1_Witness == code = 56 /\ text = "Unknown"

\* the columns of the frame with the series each is taken from
Components ==
    { <<"tmax", "temperature_2m_max">>, <<"tmin", "temperature_2m_min">>,
      <<"precip_mm", "precipitation_sum">> }

HasDates(dj) == dj.t = "dict" /\ Len(Get(dj, "time", <<>>)) >= 1

\* C2: a daily block with n >= 1 dates gives exactly n records in input
\* order whatever day count was requested; a component series of length
\* m < n fills records 1..m with its values at the same index and leaves the
\* last n-m records absent for that component; nothing is raised.
C2_Records ==
    (df # NotCalled /\ HasDates(daily_json)) =>
        LET dates == Get(daily_json, "time", <<>>)
            n == Len(dates)
            wcode == Get(daily_json, "weathercode", <<>>)
        IN  /\ df.t = "df"
            /\ Len(df.rows) = n
            /\ \A i \in 1..n : df.rows[i].date = to_datetime(dates[i])
            /\ \A i \in 1..n : df.rows[i].date.day = i
            /\ \A c \in Components :
                 LET series == Get(daily_json, c[2], <<>>) IN
                 \A i \in 1..n :
                    df.rows[i][c[1]] =
                        IF i <= Len(series) THEN Num(series[i]) ELSE None
            /\ \A i \in 1..n :
                 df.rows[i].weather_text =
                    IF i <= Len(wcode)
                    THEN Str(weathercode_to_text(wcode[i]))
                    ELSE None

\* 5 days were requested, 3 dates came back with one maximum temperature
\* and two weather codes: 3 records, the last two without a maximum
C2_Witness ==
    /\ forecast_days = 5
    /\ df.t = "df"
    /\ Len(df.rows) = 3
    /\ df.rows[1].tmax = Num(1200)
    /\ df.rows[2].tmax = None
    /\ df.rows[3].tmax = None
    /\ df.rows[2].weather_text = Str("Rain: Slight")
    /\ df.rows[3].weather_text = None

\* C3: a daily block whose date series is missing or empty gives an empty
\* or absent result and raises nothing.
C3_NoDates ==
    (df # NotCalled /\ ~HasDates(daily_json)) =>
        \/ df = None
        \/ df.t = "df" /\ Len(df.rows) = 0

IsGeoRequest(r) == r.api = "nominatim"
IsWxRequest(r) == r.api = "open-meteo"

\* C4: a run whose geocoding request did not yield a Location got None from
\* geocode_location, never an exception.
C4_AbsenceNotException ==
    (pc = "idle" /\ Len(netlog) >= 1 /\ IsGeoRequest(netlog[1]) /\ ~Truthy(loc))
        => /\ notices = <<"error:not_found", "caption">>
           /\ q \in DOMAIN cacheGeo
           /\ cacheGeo[q] = None

\* what the forecast request can come back with, by the claim's cases
WxFailure(o) ==
    \/ o.kind = "timeout"
    \/ o.status \notin 200..299
    \/ ~o.body.json

WxRequestsSent == {i \in 1..Len(netlog) : IsWxRequest(netlog[i])}

C6_CallOrder ==
    /\ Len(netlog) <= 2
    /\ \A i \in 1..Len(netlog) :
          /\ IsGeoRequest(netlog[i]) => i = 1 /\ netlog[i].q = q
          /\ IsWxRequest(netlog[i]) =>
                /\ i = Len(netlog)
                /\ Truthy(loc)
                /\ q \in DOMAIN cacheGeo /\ cacheGeo[q] = loc
                /\ netlog[i].latitude = loc.kv.lat
                /\ netlog[i].longitude = loc.kv.lon
                /\ netlog[i].forecast_days = forecast_days

\* a run that made both calls, for a 5-day forecast
C6_Witness ==
    /\ pc = "idle"
    /\ Len(netlog) = 2
    /\ IsGeoRequest(netlog[1])
    /\ IsWxRequest(netlog[2])
    /\ forecast_days = 5

\* the text is missing, empty or only whitespace
IsBlank(input) ==
    input = None \/ \A i \in 1..Len(input.s) : input.s[i] = " "

\* C7: a submission whose text is empty after trimming ends with the notice
\* to enter a location; no helper is called and no request is sent.
C7_BlankRejected ==
    /\ (runs > 0 /\ IsBlank(location_input)) =>
          /\ pc = "idle"
          /\ notices = <<"info:enter_location">>
          /\ netlog = <<>>
          /\ loc = None /\ data = None
    /\ <<>> \notin DOMAIN geoSent
    /\ <<>> \notin DOMAIN cacheGeo

\* whitespace only was submitted after an earlier submission
C7_Witness ==
    /\ runs = 2
    /\ location_input = Str(<<" ", " ">>)
    /\ notices = <<"info:enter_location">>

\* C8: at most one geocoding request is ever sent per exact query string,
\* whatever the outcome of the first.
C8_OneRequestPerQuery == \A k \in DOMAIN geoSent : geoSent[k] <= 1

\* the forecast key of the current run, when it has a Location
WxKey == <<loc.kv.lat, loc.kv.lon, forecast_days>>

C10_AbsenceMemoized ==
    [][ /\ \A k \in DOMAIN cacheGeo :
              cacheGeo[k] = None =>
                 /\ k \in DOMAIN cacheGeo' /\ cacheGeo'[k] = None
                 /\ geoSent'[k] = geoSent[k]
        /\ \A k \in DOMAIN cacheWx :
              cacheWx[k] = None =>
                 /\ k \in DOMAIN cacheWx' /\ cacheWx'[k] = None
                 /\ (Len(netlog') > 0 /\ netlog' # netlog
                        /\ IsWxRequest(netlog'[Len(netlog')])) =>
                      LET sent == netlog'[Len(netlog')] IN
                      <<sent.latitude, sent.longitude, sent.forecast_days>> # k
        /\ (runs' = runs + 1 /\ q' \in DOMAIN cacheGeo /\ cacheGeo[q'] = None) =>
              /\ pc' = "idle"
              /\ loc' = None
              /\ netlog' = <<>>
              /\ notices' = <<"error:not_found", "caption">>
        /\ (runs' = runs + 1 /\ Truthy(loc')
               /\ <<loc'.kv.lat, loc'.kv.lon, forecast_days'>> \in DOMAIN cacheWx
               /\ cacheWx[<<loc'.kv.lat, loc'.kv.lon, forecast_days'>>] = None) =>
              /\ pc' = "idle"
              /\ data' = None
              /\ netlog' = <<>>
              /\ notices' = <<"success:location", "error:fetch_failed", "caption">>
        /\ (pc = "geocode" /\ pc' # "geocode") =>
              \/ q \in DOMAIN cacheGeo'
              \/ notices'[1] = "exception"
        /\ (pc = "forecast" /\ pc' = "idle") =>
              LET sent == netlog[Len(netlog)] IN
              <<sent.latitude, sent.longitude, sent.forecast_days>>
                  \in DOMAIN cacheWx'
      ]_vars

\* the same query was submitted again after the resolver gave None for it,
\* and the run ended without a request
C10_Witness ==
    /\ runs = 2
    /\ pc = "idle"
    /\ q \in DOMAIN cacheGeo
    /\ cacheGeo[q] = None
    /\ geoSent[q] = 1
    /\ netlog = <<>>
    /\ notices = <<"error:not_found", "caption">>

====
